---- MODULE Spec2Model ----
(***************************************************************************)
(* Model of extract_table_details_from_markdown                            *)
(* (src/pdf_parse_restapi_updatecolumnlevel.py, lines 168-394): the        *)
(* stateful row interpreter that turns the rows of the markdown table      *)
(* documents into the name -> record mapping `metadata` and the ordered    *)
(* name list `results`.                                                    *)
(*                                                                         *)
(* A document is the DataFrame `df` that pd.read_csv builds at line 205.   *)
(* The loop body reads only df.iloc[idx] (`row`) and df.iloc[idx + 1]      *)
(* (`next_row`, the lookahead of lines 299-302), so the model keeps that   *)
(* two-row window of df and draws the following row when the loop          *)
(* advances; every sequence of DataFrames over the cell alphabet below    *)
(* that holds at most MaxInput rows is produced this way.                  *)
(***************************************************************************)
EXTENDS Integers, Sequences, FiniteSets, TLC

\* ------------------------------------------------------------------ bounds
MaxInput == 5       \* rows and unreadable files read in one run

\* Truncation threshold of the field-name heuristic (lines 296, 340).
TruncLen == 19

\* ------------------------------------------------------- Python values
\* Optional / possibly unbound locals: None, a str, or not yet assigned.
None == [t |-> "None", s |-> ""]
Unbound == [t |-> "unbound", s |-> ""]
Str(x) == [t |-> "str", s |-> x]

\* Python truthiness of None-or-str (lines 285, 324, 373).
Truthy(v) == v.t = "str" /\ v.s # ""

\* A raw DataFrame cell: a str, or the float NaN pandas stores for an empty
\* field.
NaN == [nan |-> TRUE, s |-> ""]
Cell(x) == [nan |-> FALSE, s |-> x]

\* str(value) of a raw cell (lines 216-220): str(float('nan')) is 'nan'.
PyStr(c) == IF c.nan THEN "nan" ELSE c.s

\* The characters str.strip() removes (str.isspace): the blank, tab, line
\* feed, carriage return, form feed, U+000B, U+001C .. U+001F, U+0085,
\* U+00A0 and U+1680.  The other Unicode spaces (U+2000 .. U+200A, U+2028,
\* U+2029, U+202F, U+205F, U+3000) cannot be written in a string of this
\* language, so no cell of the model holds one.  The characters without an
\* escape are written as themselves; the module is UTF-8 text.
Whitespace ==
    {" ", "\t", "\n", "\r", "\f", "", "", "", "", "", "", " ", " "}

\* str.lstrip(): the leading whitespace is removed (lines 216-220).
RECURSIVE LStrip(_)
LStrip(x) ==
    IF Len(x) > 0 /\ SubSeq(x, 1, 1) \in Whitespace
    THEN LStrip(SubSeq(x, 2, Len(x)))
    ELSE x

\* str.rstrip(): the trailing whitespace is removed (lines 216-220).
RECURSIVE RStrip(_)
RStrip(x) ==
    IF Len(x) > 0 /\ SubSeq(x, Len(x), Len(x)) \in Whitespace
    THEN RStrip(SubSeq(x, 1, Len(x) - 1))
    ELSE x

\* str.strip() (lines 216-220).
Strip(x) == RStrip(LStrip(x))

\* Python's `sub in x` on str (lines 225, 248, 254, 259, 265, 274).
Contains(x, sub) ==
    \E i \in 1..(Len(x) - Len(sub) + 1) : SubSeq(x, i, i + Len(sub) - 1) = sub

\* A row is the tuple of the raw cells of column_0 .. column_{n-1}, n =
\* df.shape[1].  Col(r, k) is
\*   str(row.get('column_k', '') if 'column_k' in df.columns else '').strip()
Col(r, k) == IF k + 1 <= Len(r) THEN Strip(PyStr(r[k + 1])) ELSE ""

NoRow == <<>>

\* ---------------------------------------------------- ordered dicts
\* A Python dict is a sequence of [key, val] items in insertion order.
DictKeys(d) == [i \in 1..Len(d) |-> d[i].key]

DictHas(d, k) == \E i \in 1..Len(d) : d[i].key = k

DictGet(d, k) == d[CHOOSE i \in 1..Len(d) : d[i].key = k].val

\* Faulty variant: assignment to an existing key moves it to the end.
DictSetMoveToEnd(d, k, v) ==
    SelectSeq(d, LAMBDA it : it.key # k) \o <<[key |-> k, val |-> v]>>

\* Faulty variant: assignment always adds an item, also for a key already present.
DictSetAlwaysAppend(d, k, v) == Append(d, [key |-> k, val |-> v])

\* d[k] = v: an existing key keeps its position, a new key is appended.
DictSet(d, k, v) ==
    IF DictHas(d, k)
    THEN [i \in 1..Len(d) |-> IF d[i].key = k THEN [key |-> k, val |-> v] ELSE d[i]]
    ELSE Append(d, [key |-> k, val |-> v])


\* The object stored under an existing key k is mutated in place (the nested
\* assignments of lines 251, 257, 262, 308, 316, 327, 351, 360, 376).
DictMutate(d, k, v) ==
    [i \in 1..Len(d) |-> IF d[i].key = k THEN [key |-> k, val |-> v] ELSE d[i]]

\* ------------------------------------------------------------- records
\* Faulty variant: the sentinel "nan" in column 5 is stored verbatim.
FieldEntryVerbatim(data_type, desc, foreign_key) ==
    ("type" :> data_type) @@ ("description" :> desc) @@ ("foreign_key" :> foreign_key)

\* The field entry of lines 308-312, 316-320, 351-355, 360-364.
FieldEntry(data_type, desc, foreign_key) ==
    ("type" :> data_type) @@ ("description" :> desc)
        @@ ("foreign_key" :> IF foreign_key # "nan" THEN foreign_key ELSE "")

\* The fresh table record of lines 230-241.
NewRecord(name) ==
    ("Table Name" :> name) @@ ("Table Synonym" :> None)
        @@ ("Table Description" :> None) @@ ("Module Name" :> None)
        @@ ("Key Fields" :> <<>>) @@ ("Normal Fields" :> <<>>)

\* Faulty variant: a table name seen before keeps the record it already has.
DeclareTableKeepExisting(md, name) ==
    IF DictHas(md, name) THEN md ELSE Append(md, [key |-> name, val |-> NewRecord(name)])

\* metadata[table_name] = {...} (lines 235-241).
DeclareTable(md, name) == DictSet(md, name, NewRecord(name))

\* Faulty variant: the attribute is written into every record of the
\* mapping, not only the current table's.
SetAttrEveryRecord(md, tn, attr, v) ==
    [i \in 1..Len(md) |-> [key |-> md[i].key, val |-> [md[i].val EXCEPT ![attr] = v]]]

\* metadata[table_name][attr] = col3 (lines 251, 257, 262).
SetAttr(md, tn, attr, v) ==
    DictMutate(md, tn, [DictGet(md, tn) EXCEPT ![attr] = v])

\* Faulty variant: an entry that exists is kept (setdefault), the header row
\* that repeats its name stores nothing.
SetFieldKeepFirst(md, tn, sec, name, entry) ==
    LET rec == DictGet(md, tn)
    IN IF DictHas(rec[sec], name) THEN md
       ELSE DictMutate(md, tn, [rec EXCEPT ![sec] = DictSet(rec[sec], name, entry)])

\* metadata[table_name][sec][name] = entry (lines 308, 316, 351, 360).
SetField(md, tn, sec, name, entry) ==
    LET rec == DictGet(md, tn)
    IN DictMutate(md, tn, [rec EXCEPT ![sec] = DictSet(rec[sec], name, entry)])

\* Faulty variant: the continuation text is appended without the separating space.
AppendDescNoSpace(md, tn, sec, name, desc) ==
    LET rec == DictGet(md, tn)
        old == DictGet(rec[sec], name)
    IN DictMutate(md, tn,
           [rec EXCEPT ![sec] =
               DictMutate(rec[sec], name,
                          [old EXCEPT !["description"] = old["description"] \o desc])])

\* description = description + f" {desc}" (lines 326-327, 375-376).
AppendDesc(md, tn, sec, name, desc) ==
    LET rec == DictGet(md, tn)
        old == DictGet(rec[sec], name)
    IN DictMutate(md, tn,
           [rec EXCEPT ![sec] =
               DictMutate(rec[sec], name,
                          [old EXCEPT !["description"] =
                               old["description"] \o " " \o desc])])

\* ------------------------------------------------------ classification
\* Faulty variant: 'Field Name' is tested before 'Key Field Name'.
KindFieldNameFirst(r) ==
    LET col2 == Col(r, 2)
    IN IF Contains(col2, "Table Name") THEN "TableName"
       ELSE IF Contains(col2, "Table Synonym") THEN "TableSynonym"
       ELSE IF Contains(col2, "Table Comments") THEN "TableComments"
       ELSE IF Contains(col2, "Module Name") THEN "ModuleName"
       ELSE IF Contains(col2, "Field Name") THEN "FieldName"
       ELSE IF Contains(col2, "Key Field Name") THEN "KeyFieldName"
       ELSE "Data"

\* The if / elif chain of lines 225-283.  The test of line 280
\* (`col2 is None and col3 is None and col4 is None`) is never true of the
\* str values of lines 216-220, so a blank row is a data row.
Kind(r) ==
    LET col2 == Col(r, 2)
    IN IF Contains(col2, "Table Name") THEN "TableName"
       ELSE IF Contains(col2, "Table Synonym") THEN "TableSynonym"
       ELSE IF Contains(col2, "Table Comments") THEN "TableComments"
       ELSE IF Contains(col2, "Module Name") THEN "ModuleName"
       ELSE IF Contains(col2, "Key Field Name") THEN "KeyFieldName"
       ELSE IF Contains(col2, "Field Name") THEN "FieldName"
       ELSE "Data"

\* Entry header test of lines 294 and 338.
IsHeader(r) == Col(r, 1) = "nan" /\ Col(r, 2) # "" /\ Col(r, 2) # "nan"

\* Lookahead of lines 299-305 (343-349); nxt = NoRow when idx + 1 = len(df).
HasContinuation(nxt) == nxt # NoRow /\ Col(nxt, 1) # "nan" /\ Col(nxt, 2) # "nan"

\* Faulty variant: the text of an empty cell, "nan", is not excluded.
AppendsDescAnyText(cur, desc) ==
    Truthy(cur) /\ desc # "Unnamed: 3" /\ desc # ""

\* Continuation test of lines 324 and 373.
AppendsDesc(cur, desc) ==
    Truthy(cur) /\ desc # "nan" /\ desc # "Unnamed: 3" /\ desc # ""

\* Faulty variant: a truncated name is stored as it is, without the next row's piece.
FieldRowNoReassembly(md, tn, sec, cur, r, nxt) ==
    LET field == Col(r, 2)
        entry == FieldEntry(Col(r, 3), Col(r, 4), Col(r, 5))
    IN IF IsHeader(r)
       THEN [md |-> SetField(md, tn, sec, field, entry), cur |-> Str(field)]
       ELSE IF AppendsDesc(cur, Col(r, 4))
            THEN [md |-> AppendDesc(md, tn, sec, cur.s, Col(r, 4)), cur |-> cur]
            ELSE [md |-> md, cur |-> cur]

\* Faulty variant: a truncated header whose lookahead fails forgets the
\* pending field name.
FieldRowDropsPending(md, tn, sec, cur, r, nxt) ==
    LET field == Col(r, 2)
        entry == FieldEntry(Col(r, 3), Col(r, 4), Col(r, 5))
    IN IF IsHeader(r)
       THEN IF Len(field) >= TruncLen
            THEN IF HasContinuation(nxt)
                 THEN [md |-> SetField(md, tn, sec, field \o Col(nxt, 2), entry),
                       cur |-> Str(field \o Col(nxt, 2))]
                 ELSE [md |-> md, cur |-> None]
            ELSE [md |-> SetField(md, tn, sec, field, entry), cur |-> Str(field)]
       ELSE IF AppendsDesc(cur, Col(r, 4))
            THEN [md |-> AppendDesc(md, tn, sec, cur.s, Col(r, 4)), cur |-> cur]
            ELSE [md |-> md, cur |-> cur]

\* One data row inside a field section (lines 289-327 with sec = "Key Fields"
\* and cur = current_Key_Field_Fullname, lines 331-376 with
\* sec = "Normal Fields" and cur = current_Normal_Field_Fullname): the new
\* metadata and the new pending field name.
FieldRow(md, tn, sec, cur, r, nxt) ==
    LET field == Col(r, 2)
        entry == FieldEntry(Col(r, 3), Col(r, 4), Col(r, 5))
    IN IF IsHeader(r)
       THEN IF Len(field) >= TruncLen
            THEN IF HasContinuation(nxt)
                 THEN [md |-> SetField(md, tn, sec, field \o Col(nxt, 2), entry),
                       cur |-> Str(field \o Col(nxt, 2))]
                 ELSE [md |-> md, cur |-> cur]
            ELSE [md |-> SetField(md, tn, sec, field, entry), cur |-> Str(field)]
       ELSE IF AppendsDesc(cur, Col(r, 4))
            THEN [md |-> AppendDesc(md, tn, sec, cur.s, Col(r, 4)), cur |-> cur]
            ELSE [md |-> md, cur |-> cur]

\* ---------------------------------------------------------------- inputs
\* Cells of column_1 .. column_5 of the rows a document may hold.  A cell
\* that holds only a tab is read as that string (skipinitialspace removes
\* leading blanks only), so the column is "" after strip(), not "nan".
RawRows ==
    { <<NaN, Cell("Table Name "), Cell("A "), NaN, NaN>>,
      <<NaN, Cell("Table Name"), Cell("B"), NaN, NaN>>,
      <<NaN, Cell("Table Synonym"), Cell("SYN"), NaN, NaN>>,
      <<NaN, Cell("Table Comments"), Cell("About"), NaN, NaN>>,
      <<NaN, Cell("Module Name"), Cell("MOD"), NaN, NaN>>,
      <<NaN, Cell("Key Field Name"), Cell("Data Type"), Cell("Description"), NaN>>,
      <<NaN, Cell("Field Name"), Cell("Data Type"), Cell("Description"), NaN>>,
      <<NaN, Cell("status\t"), Cell("CHAR"), Cell("Current"), NaN>>,
      <<NaN, Cell("status"), Cell("NUM"), Cell("Flag"), Cell("REF")>>,
      <<NaN, Cell("ACCOUNT_OPEN_DATE_T"), Cell("DATE"), Cell("Opened"), Cell("REF")>>,
      <<Cell("x"), Cell("IMESTAMP"), NaN, Cell("value of account."), NaN>>,
      <<Cell("x"), NaN, NaN, Cell("Unnamed: 3"), NaN>>,
      <<Cell("x"), Cell("\t"), NaN, NaN, NaN>>,
      <<Cell("\t"), Cell("code"), Cell("NUM"), NaN, NaN>>,
      <<NaN, NaN, NaN, Cell(" more\n"), NaN>>,
      <<Cell("x"), NaN, NaN, NaN, Cell("REF")>> }

\* Rows of a document whose tables have one cell per row fewer than the
\* interpreter reads: column_3 .. column_5 are absent.
NarrowRows ==
    { <<NaN, Cell("Table Synonym / Table Name")>>,
      <<NaN, Cell("status")>>,
      <<Cell("\t"), Cell("status")>> }

\* Rows of a document whose lines hold at most one pipe: column_2 ..
\* column_5 are absent, and column_1 too in the one-column frame.
BareRows(n) == IF n = 2 THEN { <<NaN>> } ELSE { <<>> }

\* df.shape[1]: column_0 (the text before the leading pipe) and the cells kept.
Widths == {1, 2, 3, 6}

\* The rows of a DataFrame of n columns (lines 205, 208).
Rows(n) ==
    { <<NaN>> \o r : r \in IF n = 6 THEN RawRows
                            ELSE IF n = 3 THEN NarrowRows
                            ELSE BareRows(n) }

\* ----------------------------------------------------------------- state
VARIABLES
    pc,                             \* "files" (lines 171, 179), "row" (line 213), "done", "raised"
    consumed,                       \* input read so far: rows and unreadable files
    errors,                         \* "Error processing file" diagnostics (line 388)
    row,                            \* df.iloc[idx]
    next_row,                       \* df.iloc[idx + 1], NoRow when idx + 1 = len(df)
    in_key_field_section,           \* line 174
    in_field_section,               \* line 175
    table_name,                     \* line 176
    metadata,                       \* line 177
    results,                        \* line 170
    current_Key_Field_Fullname,     \* line 270
    current_Normal_Field_Fullname   \* line 277

window == <<row, next_row>>
parse == <<in_key_field_section, in_field_section, table_name, metadata, results,
           current_Key_Field_Fullname, current_Normal_Field_Fullname>>
vars == <<pc, consumed, errors, window, parse>>

\* State after lines 169-177.
Init ==
    /\ pc = "files"
    /\ consumed = 0
    /\ errors = 0
    /\ row = NoRow
    /\ next_row = NoRow
    /\ in_key_field_section = FALSE
    /\ in_field_section = FALSE
    /\ table_name = None
    /\ metadata = <<>>
    /\ results = <<>>
    /\ current_Key_Field_Fullname = Unbound
    /\ current_Normal_Field_Fullname = Unbound

\* ------------------------------------------------------------- control
\* Faulty variant: the section flags and the current table are initialised
\* for every file instead of once before the loop.
OpenFileFreshState ==
    /\ pc = "files"
    /\ consumed < MaxInput
    /\ \E n \in Widths :
          /\ row' \in Rows(n)
          /\ next_row' \in IF consumed + 1 < MaxInput THEN Rows(n) \cup {NoRow}
                           ELSE {NoRow}
    /\ consumed' = consumed + (IF next_row' = NoRow THEN 1 ELSE 2)
    /\ pc' = "row"
    /\ in_key_field_section' = FALSE
    /\ in_field_section' = FALSE
    /\ table_name' = None
    /\ UNCHANGED <<errors, metadata, results, current_Key_Field_Fullname,
                   current_Normal_Field_Fullname>>

\* Lines 180-208: the next file of `files` is read and parsed into a
\* DataFrame of n columns and at least one row.
OpenFile ==
    /\ pc = "files"
    /\ consumed < MaxInput
    /\ \E n \in Widths :
          /\ row' \in Rows(n)
          /\ next_row' \in IF consumed + 1 < MaxInput THEN Rows(n) \cup {NoRow}
                           ELSE {NoRow}
    /\ consumed' = consumed + (IF next_row' = NoRow THEN 1 ELSE 2)
    /\ pc' = "row"
    /\ UNCHANGED <<errors, parse>>

\* Lines 182-205 raise (the file cannot be opened or decoded as utf-8, or
\* nothing is left to parse after the separator lines are dropped): the
\* handler of lines 387-388 prints and the loop goes on with the next file.
ReadFail ==
    /\ pc = "files"
    /\ consumed < MaxInput
    /\ consumed' = consumed + 1
    /\ errors' = errors + 1
    /\ UNCHANGED <<pc, window, parse>>

\* No file is left: lines 171-173 when there was none at all (return []),
\* lines 389-394 after the loop (metadata is written, when an output path
\* is given, and returned).
Finish ==
    /\ pc = "files"
    /\ pc' = "done"
    /\ UNCHANGED <<consumed, errors, window, parse>>

\* What the call returns when it returns: the empty list of line 173 when
\* `files` was empty, the mapping at line 394.
ReturnValue ==
    IF consumed = 0 THEN [t |-> "list", v |-> <<>>]
    ELSE [t |-> "dict", v |-> metadata]

\* No file is left of the one or more there were, an output path is given
\* and open() or json.dump() raises (lines 390-392): the statement is outside
\* the try of lines 180-388, so the exception leaves the function and
\* nothing is returned.
WriteFail ==
    /\ pc = "files"
    /\ consumed > 0
    /\ pc' = "raised"
    /\ UNCHANGED <<consumed, errors, window, parse>>

\* End of one iteration of the loop of line 213: the next row of df, or the
\* end of the file (lines 380-382 change nothing).
NextRow ==
    IF next_row = NoRow
    THEN /\ pc' = "files"
         /\ row' = NoRow
         /\ next_row' = NoRow
         /\ consumed' = consumed
    ELSE /\ pc' = "row"
         /\ row' = next_row
         /\ next_row' \in IF consumed < MaxInput THEN Rows(Len(row)) \cup {NoRow}
                          ELSE {NoRow}
         /\ consumed' = consumed + (IF next_row' = NoRow THEN 0 ELSE 1)

\* Faulty variant: the exception is not caught and ends the run.
AbortRun ==
    /\ pc' = "aborted"
    /\ row' = NoRow
    /\ next_row' = NoRow
    /\ consumed' = consumed
    /\ errors' = errors + 1

\* An exception inside the loop of line 213 leaves the loop: it is caught at
\* lines 387-388, the remaining rows of df are not processed.
AbortFile ==
    /\ pc' = "files"
    /\ row' = NoRow
    /\ next_row' = NoRow
    /\ consumed' = consumed
    /\ errors' = errors + 1

\* -------------------------------------------------------------- rows
\* Faulty variant: the name is not recorded in results.
TableNameRowNoAppend ==
    /\ pc = "row"
    /\ Kind(row) = "TableName"
    /\ table_name' = Str(Col(row, 3))
    /\ in_field_section' = FALSE
    /\ in_key_field_section' = FALSE
    /\ metadata' = DeclareTable(metadata, Col(row, 3))
    /\ NextRow
    /\ UNCHANGED <<errors, results, current_Key_Field_Fullname,
                   current_Normal_Field_Fullname>>

\* Faulty variant: a Table Name row leaves the section flags as they are.
TableNameRowKeepsSection ==
    /\ pc = "row"
    /\ Kind(row) = "TableName"
    /\ table_name' = Str(Col(row, 3))
    /\ results' = Append(results, Col(row, 3))
    /\ metadata' = DeclareTable(metadata, Col(row, 3))
    /\ NextRow
    /\ UNCHANGED <<errors, in_key_field_section, in_field_section,
                   current_Key_Field_Fullname, current_Normal_Field_Fullname>>

\* Lines 225-243.
TableNameRow ==
    /\ pc = "row"
    /\ Kind(row) = "TableName"
    /\ table_name' = Str(Col(row, 3))
    /\ results' = Append(results, Col(row, 3))
    /\ in_field_section' = FALSE
    /\ in_key_field_section' = FALSE
    /\ metadata' = DeclareTable(metadata, Col(row, 3))
    /\ NextRow
    /\ UNCHANGED <<errors, current_Key_Field_Fullname,
                   current_Normal_Field_Fullname>>

\* Faulty variant: every attribute row writes the synonym.
AttrOfAlwaysSynonym(kind) == "Table Synonym"

\* The record attribute a marker row sets.
AttrOf(kind) ==
    IF kind = "TableSynonym" THEN "Table Synonym"
    ELSE IF kind = "TableComments" THEN "Table Description"
    ELSE "Module Name"

\* Lines 248-262: metadata[table_name] raises KeyError while table_name is
\* None; otherwise the record exists and is truthy.
AttributeRow ==
    /\ pc = "row"
    /\ Kind(row) \in {"TableSynonym", "TableComments", "ModuleName"}
    /\ IF table_name = None
       THEN /\ AbortFile
            /\ UNCHANGED parse
       ELSE /\ metadata' = SetAttr(metadata, table_name.s, AttrOf(Kind(row)),
                                   Str(Col(row, 3)))
            /\ NextRow
            /\ UNCHANGED <<errors, in_key_field_section, in_field_section,
                           table_name, results, current_Key_Field_Fullname,
                           current_Normal_Field_Fullname>>

\* Faulty variant: opening the key field section leaves the normal field
\* section flag as it is.
KeyFieldSectionStartKeepsOther ==
    /\ pc = "row"
    /\ Kind(row) = "KeyFieldName"
    /\ in_key_field_section' = TRUE
    /\ current_Key_Field_Fullname' = None
    /\ NextRow
    /\ UNCHANGED <<errors, in_field_section, table_name, metadata, results,
                   current_Normal_Field_Fullname>>

\* Lines 265-270.
KeyFieldSectionStart ==
    /\ pc = "row"
    /\ Kind(row) = "KeyFieldName"
    /\ in_key_field_section' = TRUE
    /\ in_field_section' = FALSE
    /\ current_Key_Field_Fullname' = None
    /\ NextRow
    /\ UNCHANGED <<errors, table_name, metadata, results,
                   current_Normal_Field_Fullname>>

\* Lines 274-277.
NormalFieldSectionStart ==
    /\ pc = "row"
    /\ Kind(row) = "FieldName"
    /\ in_field_section' = TRUE
    /\ in_key_field_section' = FALSE
    /\ current_Normal_Field_Fullname' = None
    /\ NextRow
    /\ UNCHANGED <<errors, table_name, metadata, results,
                   current_Key_Field_Fullname>>

\* The pending name read by a data row in section sec.
Pending(sec) ==
    IF sec = "Key Fields" THEN current_Key_Field_Fullname
    ELSE current_Normal_Field_Fullname

\* A data row in section sec raises: the pending name is read before any
\* assignment (UnboundLocalError, lines 324, 373) or names no entry of the
\* current table (KeyError, lines 326, 375).
FieldRowRaises(sec) ==
    /\ ~IsHeader(row)
    /\ \/ Pending(sec) = Unbound
       \/ /\ AppendsDesc(Pending(sec), Col(row, 4))
          /\ ~DictHas(DictGet(metadata, table_name.s)[sec], Pending(sec).s)

\* Lines 283-286: a data row without a current table, or lines 289, 331 with
\* no active section, is dropped.
DroppedRow ==
    /\ pc = "row"
    /\ Kind(row) = "Data"
    /\ ~Truthy(table_name) \/ (~in_key_field_section /\ ~in_field_section)
    /\ NextRow
    /\ UNCHANGED <<errors, parse>>

\* Lines 289-327: a data row in the key field section.
KeyFieldRow ==
    /\ pc = "row"
    /\ Kind(row) = "Data"
    /\ Truthy(table_name)
    /\ in_key_field_section
    /\ IF FieldRowRaises("Key Fields")
       THEN /\ AbortFile
            /\ UNCHANGED parse
       ELSE /\ LET res == FieldRow(metadata, table_name.s, "Key Fields",
                                   current_Key_Field_Fullname, row, next_row)
               IN /\ metadata' = res.md
                  /\ current_Key_Field_Fullname' = res.cur
            /\ NextRow
            /\ UNCHANGED <<errors, in_key_field_section, in_field_section,
                           table_name, results, current_Normal_Field_Fullname>>

\* Lines 331-376: a data row in the normal field section.
NormalFieldRow ==
    /\ pc = "row"
    /\ Kind(row) = "Data"
    /\ Truthy(table_name)
    /\ ~in_key_field_section
    /\ in_field_section
    /\ IF FieldRowRaises("Normal Fields")
       THEN /\ AbortFile
            /\ UNCHANGED parse
       ELSE /\ LET res == FieldRow(metadata, table_name.s, "Normal Fields",
                                   current_Normal_Field_Fullname, row, next_row)
               IN /\ metadata' = res.md
                  /\ current_Normal_Field_Fullname' = res.cur
            /\ NextRow
            /\ UNCHANGED <<errors, in_key_field_section, in_field_section,
                           table_name, results, current_Key_Field_Fullname>>

Next ==
    \/ OpenFile
    \/ ReadFail
    \/ Finish
    \/ WriteFail
    \/ TableNameRow
    \/ AttributeRow
    \/ KeyFieldSectionStart
    \/ NormalFieldSectionStart
    \/ DroppedRow
    \/ KeyFieldRow
    \/ NormalFieldRow

Spec == Init /\ [][Next]_vars

\* ================================================================ claims
Range(q) == { q[i] : i \in 1..Len(q) }

TableNames(md) == Range(DictKeys(md))

FieldNames(md, t, sec) == Range(DictKeys(DictGet(md, t)[sec]))

Field(md, t, sec, f) == DictGet(DictGet(md, t)[sec], f)

Sections == {"Key Fields", "Normal Fields"}

Attributes == {"Table Synonym", "Table Description", "Module Name"}

\* The row at idx is a data row that reaches the field code of section sec.
InSection(sec) ==
    /\ pc = "row"
    /\ Kind(row) = "Data"
    /\ Truthy(table_name)
    /\ IF sec = "Key Fields" THEN in_key_field_section
       ELSE ~in_key_field_section /\ in_field_section

\* The row at idx is a Table Name row.
Declares == pc = "row" /\ Kind(row) = "TableName"

\* ---------------------------------------------------------------- C1
\* C1: a Table Name row for a name T, also one already in the mapping, leaves
\* T with a record that has no key field, no normal field and no synonym,
\* description or module; and while T is current and no section has been
\* opened since, its record has no field: what the final record holds was
\* created after the last Table Name row for T.
C1_RedeclaredTableIsFresh ==
    /\ [](Truthy(table_name) /\ ~in_key_field_section /\ ~in_field_section
            => \A sec \in Sections : DictGet(metadata, table_name.s)[sec] = <<>>)
    /\ [][Declares =>
            LET t == Col(row, 3)
            IN /\ t \in TableNames(metadata')
               /\ \A sec \in Sections : DictGet(metadata', t)[sec] = <<>>
               /\ \A a \in Attributes : DictGet(metadata', t)[a] = None]_vars

\* Table A was declared, got a key field (the pending key field name is still
\* set), and was declared again: its record has no field.
C1_Witness ==
    /\ results = <<"A", "A">>
    /\ table_name = Str("A")
    /\ Truthy(current_Key_Field_Fullname)
    /\ ~in_key_field_section
    /\ DictGet(metadata, "A")["Key Fields"] = <<>>

\* ---------------------------------------------------------------- C2
\* C2 as stated: before the first Table Name row no field entry exists and
\* neither section is active.
C2_NoSectionBeforeFirstTable ==
    results = <<>> =>
        /\ \A t \in TableNames(metadata), sec \in Sections :
               FieldNames(metadata, t, sec) = {}
        /\ ~in_key_field_section
        /\ ~in_field_section

\* C2 amended: before the first Table Name row the mapping is empty (so no
\* field entry exists) and no table is current; the section flags change
\* only on a Key Field Name or Field Name row, which activates its section
\* although no table is current.
C2_NoFieldBeforeFirstTable ==
    /\ [](results = <<>> => metadata = <<>> /\ table_name = None)
    /\ [][results = <<>> /\ pc = "row" =>
            /\ Kind(row) = "KeyFieldName" =>
                   in_key_field_section' /\ ~in_field_section'
            /\ Kind(row) = "FieldName" =>
                   in_field_section' /\ ~in_key_field_section'
            /\ Kind(row) \notin {"KeyFieldName", "FieldName", "TableName"} =>
                   UNCHANGED <<in_key_field_section, in_field_section>>]_vars

\* No table was declared yet, the key field section is active and a field
\* header row is about to be processed.
C2_Witness ==
    /\ results = <<>>
    /\ in_key_field_section
    /\ pc = "row"
    /\ Kind(row) = "Data"
    /\ IsHeader(row)

\* ---------------------------------------------------------------- C3
\* C3 as stated: a row other than a Table Name row that is processed while no
\* table is current raises nothing and leaves the mapping unchanged.
C3_MissingContextNeverRaises ==
    [][pc = "row" /\ table_name = None /\ Kind(row) # "TableName" =>
          errors' = errors /\ metadata' = metadata]_vars

\* ---------------------------------------------------------------- C4
\* The field entry the claims expect of a header row.
ExpectedEntry(r) ==
    [type |-> Col(r, 3), description |-> Col(r, 4),
     foreign_key |-> IF Col(r, 5) = "nan" THEN "" ELSE Col(r, 5)]

\* The row at idx is a truncated header in section sec whose lookahead succeeds.
Reassembles(sec) ==
    /\ InSection(sec)
    /\ Col(row, 1) \in {"", "nan"}
    /\ Col(row, 2) \notin {"", "nan"}
    /\ Len(Col(row, 2)) >= TruncLen
    /\ next_row # NoRow
    /\ Col(next_row, 1) \notin {"", "nan"}
    /\ Col(next_row, 2) \notin {"", "nan"}

\* C4: a truncated header row whose next row has a column 1 and a column 2
\* adds exactly the entry keyed by the two column-2 values concatenated, with
\* the header row's type, description and foreign key, to the active
\* section; the truncated name gets no entry, the other section is
\* unchanged, and the concatenation becomes the pending field name.
C4_FieldNameReassembly ==
    [][\A sec \in Sections :
          Reassembles(sec) =>
              LET t == table_name.s
                  full == Col(row, 2) \o Col(next_row, 2)
              IN /\ FieldNames(metadata', t, sec)
                        = FieldNames(metadata, t, sec) \cup {full}
                 /\ Len(DictGet(metadata', t)[sec])
                        <= Len(DictGet(metadata, t)[sec]) + 1
                 /\ Field(metadata', t, sec, full) = ExpectedEntry(row)
                 /\ \A other \in Sections \ {sec} :
                        DictGet(metadata', t)[other] = DictGet(metadata, t)[other]
                 /\ IF sec = "Key Fields"
                    THEN current_Key_Field_Fullname' = Str(full)
                    ELSE current_Normal_Field_Fullname' = Str(full)]_vars

\* The truncated header ACCOUNT_OPEN_DATE_T was processed with IMESTAMP as its
\* next row: the key field has the full name and the header row's cells.
C4_Witness ==
    /\ pc = "row"
    /\ table_name = Str("A")
    /\ Col(row, 2) = "IMESTAMP"
    /\ in_key_field_section
    /\ current_Key_Field_Fullname = Str("ACCOUNT_OPEN_DATE_TIMESTAMP")
    /\ DictKeys(DictGet(metadata, "A")["Key Fields"]) = <<"ACCOUNT_OPEN_DATE_TIMESTAMP">>
    /\ Field(metadata, "A", "Key Fields", "ACCOUNT_OPEN_DATE_TIMESTAMP")
           = [type |-> "DATE", description |-> "Opened", foreign_key |-> "REF"]

\* ---------------------------------------------------------------- C5
\* md2 is md1 but for the description of field f of section sec of table t.
SameButDescription(md1, md2, t, sec, f) ==
    /\ DictKeys(md2) = DictKeys(md1)
    /\ \A u \in TableNames(md1) \ {t} : DictGet(md2, u) = DictGet(md1, u)
    /\ \A a \in Attributes \cup {"Table Name"} \cup (Sections \ {sec}) :
           DictGet(md2, t)[a] = DictGet(md1, t)[a]
    /\ DictKeys(DictGet(md2, t)[sec]) = DictKeys(DictGet(md1, t)[sec])
    /\ \A g \in FieldNames(md1, t, sec) \ {f} :
           Field(md2, t, sec, g) = Field(md1, t, sec, g)
    /\ Field(md2, t, sec, f)["type"] = Field(md1, t, sec, f)["type"]
    /\ Field(md2, t, sec, f)["foreign_key"] = Field(md1, t, sec, f)["foreign_key"]

\* C5: a data row of a field section that is no field header appends
\* " " and its column 4 to the description of the pending field when a
\* pending field name exists and column 4 is not empty, not "nan" and not
\* "Unnamed: 3", and changes nothing else; otherwise it changes nothing.
C5_DescriptionContinuation ==
    [][\A sec \in Sections :
          InSection(sec) /\ ~IsHeader(row) =>
              LET t == table_name.s
                  cur == Pending(sec)
                  col4 == Col(row, 4)
              IN IF cur.t = "str" /\ cur.s # "" /\ col4 \notin {"", "nan", "Unnamed: 3"}
                 THEN /\ SameButDescription(metadata, metadata', t, sec, cur.s)
                      /\ Field(metadata', t, sec, cur.s)["description"]
                             = Field(metadata, t, sec, cur.s)["description"]
                                   \o " " \o col4
                 ELSE metadata' = metadata]_vars

\* Key field status was created with description "Current" and two
\* continuation rows followed, in this order.
C5_Witness ==
    /\ table_name = Str("A")
    /\ "status" \in FieldNames(metadata, "A", "Key Fields")
    /\ Field(metadata, "A", "Key Fields", "status")["description"]
           = "Current value of account. more"

\* ---------------------------------------------------------------- C6
\* Every stored foreign key differs from "nan".
NoNanForeignKey ==
    \A t \in TableNames(metadata), sec \in Sections :
        \A f \in FieldNames(metadata, t, sec) :
            Field(metadata, t, sec, f)["foreign_key"] # "nan"

\* The row at idx is a header row of section sec that creates an entry named f.
Creates(sec, f) ==
    /\ InSection(sec)
    /\ IsHeader(row)
    /\ IF Len(Col(row, 2)) >= TruncLen
       THEN HasContinuation(next_row) /\ f = Col(row, 2) \o Col(next_row, 2)
       ELSE f = Col(row, 2)

\* The step stores the header row's column 5, "nan" as "", in each entry it
\* creates.
StoresForeignKey ==
    \A sec \in Sections, f \in {Col(row, 2), Col(row, 2) \o Col(next_row, 2)} :
        Creates(sec, f) =>
            Field(metadata', table_name.s, sec, f)["foreign_key"]
                = IF Col(row, 5) = "nan" THEN "" ELSE Col(row, 5)

\* The type and foreign key of the entries that exist before and after the
\* step, except those named in `but`, are unchanged.
KeepsTypeAndKey(but) ==
    \A t \in TableNames(metadata) \cap TableNames(metadata'), sec \in Sections :
        \A f \in (FieldNames(metadata, t, sec) \cap FieldNames(metadata', t, sec)) \ but :
            /\ Field(metadata', t, sec, f)["type"] = Field(metadata, t, sec, f)["type"]
            /\ Field(metadata', t, sec, f)["foreign_key"]
                   = Field(metadata, t, sec, f)["foreign_key"]

\* C6 as stated: column 5 is stored verbatim but "nan" as "", no stored
\* foreign key is "nan", and no later row changes the type or the foreign
\* key of an entry.
C6_ForeignKeyNeverChanges ==
    /\ []NoNanForeignKey
    /\ [][pc = "row" => StoresForeignKey /\ KeepsTypeAndKey({})]_vars

\* C6 amended: column 5 is stored verbatim but "nan" as "", no stored
\* foreign key is "nan", and the type and foreign key of an entry change
\* only when a later header row creates an entry of the same name in the
\* same section of the current table, which replaces the entry.
C6_ForeignKeyNormalized ==
    /\ []NoNanForeignKey
    /\ [][pc = "row" =>
            /\ StoresForeignKey
            /\ \/ KeepsTypeAndKey({})
               \/ \E sec \in Sections :
                      \E f \in FieldNames(metadata, table_name.s, sec) :
                          /\ Creates(sec, f)
                          /\ KeepsTypeAndKey({f})
                          /\ \A u \in TableNames(metadata) \ {table_name.s} :
                                 DictGet(metadata', u) = DictGet(metadata, u)
                          /\ \A other \in Sections \ {sec} :
                                 DictGet(metadata', table_name.s)[other]
                                     = DictGet(metadata, table_name.s)[other]]_vars

\* Key field status was stored from a header row whose column 5 is NaN and a
\* continuation row has extended its description since.
C6_Witness ==
    /\ table_name = Str("A")
    /\ "status" \in FieldNames(metadata, "A", "Key Fields")
    /\ Field(metadata, "A", "Key Fields", "status")
           = [type |-> "CHAR", description |-> "Current more", foreign_key |-> ""]

\* ---------------------------------------------------------------- C7
\* The names of results are the keys of metadata, no key occurs twice, and
\* each record carries its key as "Table Name".
NamesMatchMapping ==
    /\ Range(results) = TableNames(metadata)
    /\ \A i, j \in 1..Len(metadata) : metadata[i].key = metadata[j].key => i = j
    /\ \A i \in 1..Len(metadata) : metadata[i].val["Table Name"] = metadata[i].key

\* C7: every Table Name row appends its column 3 to results and leaves a
\* record of that name with no key field and no normal field; in every state
\* the names of results are the keys of the mapping, the mapping has one
\* record per name, and each record's "Table Name" is its key.
C7_NameListMatchesMapping ==
    /\ []NamesMatchMapping
    /\ [][Declares =>
            /\ results' = results \o <<Col(row, 3)>>
            /\ \A sec \in Sections : FieldNames(metadata', Col(row, 3), sec) = {}]_vars

\* A was declared twice and B once: three names in results, two records.
C7_Witness ==
    /\ results = <<"A", "B", "A">>
    /\ Len(metadata) = 2
    /\ pc = "done"

\* ---------------------------------------------------------------- C8
\* q without the occurrences of a name after its first.
RECURSIVE FirstOccurrences(_)
FirstOccurrences(q) ==
    IF q = <<>> THEN <<>>
    ELSE LET front == SubSeq(q, 1, Len(q) - 1)
             last == q[Len(q)]
         IN IF last \in Range(front) THEN FirstOccurrences(front)
            ELSE Append(FirstOccurrences(front), last)

\* C8: the keys of the mapping, in order, are the names of results in the
\* order of their first occurrence; declaring a name again does not move it.
C8_KeysInFirstCreatedOrder == DictKeys(metadata) = FirstOccurrences(results)

\* B was declared, then A, then B again: B is still the first key.
C8_Witness ==
    /\ results = <<"B", "A", "B">>
    /\ DictKeys(metadata) = <<"B", "A">>

\* ---------------------------------------------------------------- C9
\* C9 as stated: whatever happens to a row that has a next row in its
\* document, an error included, the next row is processed next.
C9_ErrorSkipsOnlyTheRow ==
    [][pc = "row" /\ next_row # NoRow => pc' = "row" /\ row' = next_row]_vars

\* ---------------------------------------------------------------- C10
\* Rows of the window still to be processed.
InWindow == (IF row = NoRow THEN 0 ELSE 1) + (IF next_row = NoRow THEN 0 ELSE 1)

\* What is left to do: the input not yet read, the rows read and not yet
\* processed, and the end of the call.
Remaining ==
    3 * (MaxInput - consumed) + InWindow
        + (IF pc \in {"done", "raised"} THEN 0 ELSE 1)

\* The run has returned, or the step the code takes next can be taken: the
\* return when no file is left, else the handler of the row at idx.
NeverStuck ==
    \/ pc = "done"
    \/ pc = "files" /\ ENABLED Finish
    \/ /\ pc = "row"
       /\ LET kind == Kind(row)
          IN \/ kind = "TableName" /\ ENABLED TableNameRow
             \/ kind \in {"TableSynonym", "TableComments", "ModuleName"}
                    /\ ENABLED AttributeRow
             \/ kind = "KeyFieldName" /\ ENABLED KeyFieldSectionStart
             \/ kind = "FieldName" /\ ENABLED NormalFieldSectionStart
             \/ kind = "Data"
                    /\ ENABLED (DroppedRow \/ KeyFieldRow \/ NormalFieldRow)

\* The Table Name rows a later document may hold.
TableNameRows == { r \in Rows(6) : Kind(r) = "TableName" }

\* C10 as stated: a failure (an unreadable document, an error in a row)
\* changes neither the mapping nor the name list and returns to the loop
\* over the documents; the records and fields in the mapping at the failure
\* are in the final mapping whatever a later document holds, also a Table
\* Name row r (one more document can be read, and after r the record of its
\* table is DeclareTable's); the run always goes on until it has returned,
\* what it returns is the mapping, and every step brings it closer to the
\* return.
C10_FailureNeverAbortsRun ==
    /\ []NeverStuck
    /\ [](pc = "done" => ReturnValue = [t |-> "dict", v |-> metadata])
    /\ [][errors' # errors =>
            metadata' = metadata /\ results' = results /\ pc' = "files"]_vars
    /\ [][errors' # errors /\ consumed' < MaxInput =>
            \A r \in TableNameRows :
                LET final == DeclareTable(metadata', Col(r, 3))
                IN \A t \in TableNames(metadata'), sec \in Sections :
                       FieldNames(metadata', t, sec)
                           \subseteq FieldNames(final, t, sec)]_vars
    /\ [][Remaining' < Remaining]_vars

\* C10 amended: a failure inside the loop over the documents (an unreadable
\* document, an error in a row) changes neither the mapping nor the name
\* list and returns to that loop; no step ever removes a record, and a step
\* removes a field only when it is a Table Name row that declares the
\* field's table again; the run always goes on until the end of the input,
\* where it returns the mapping, or the empty list when there was no
\* document at all, or, when writing the output file fails, raises with the
\* mapping, the name list and the failure count as the last document left
\* them; nothing else ends the run, and every step brings it closer to its
\* end.
C10_DocumentFailureNeverAbortsRun ==
    /\ [](pc = "raised" \/ NeverStuck)
    /\ [](pc = "done" =>
            ReturnValue = IF consumed > 0 THEN [t |-> "dict", v |-> metadata]
                          ELSE [t |-> "list", v |-> <<>>])
    /\ [](consumed = 0 => metadata = <<>> /\ results = <<>> /\ errors = 0)
    /\ [][pc' = "raised" =>
            pc = "files" /\ consumed > 0 /\ UNCHANGED <<parse, errors>>]_vars
    /\ [][errors' # errors =>
            metadata' = metadata /\ results' = results /\ pc' = "files"]_vars
    /\ [][\A t \in TableNames(metadata) :
              /\ t \in TableNames(metadata')
              /\ \A sec \in Sections :
                     \/ FieldNames(metadata, t, sec)
                            \subseteq FieldNames(metadata', t, sec)
                     \/ Declares /\ Col(row, 3) = t]_vars
    /\ [][Remaining' < Remaining]_vars

\* The run returned a mapping with a record and its key field after two
\* failures.
C10_Witness ==
    /\ pc = "done"
    /\ errors = 2
    /\ Len(metadata) = 1
    /\ DictGet(metadata, metadata[1].key)["Key Fields"] # <<>>

\* ---------------------------------------------------------------- C11
\* The current table, the section flags and the pending field names.
Context ==
    <<table_name, in_key_field_section, in_field_section,
      current_Key_Field_Fullname, current_Normal_Field_Fullname>>

\* C11: between the last processed row of a document and the first row of
\* the next one (the document is left, a document is unreadable, the next
\* one is opened) the current table, the section flags and the pending
\* field names do not change, nor do the mapping and the name list; so a
\* data row that starts a document reaches the field code of the table and
\* section opened in an earlier document; and the current table changes
\* on a Table Name row only.
C11_StatePersistsAcrossDocuments ==
    /\ [][pc = "files" => UNCHANGED <<Context, metadata, results>>]_vars
    /\ [][pc = "files" /\ pc' = "row" /\ Kind(row') = "Data" =>
            \A sec \in Sections :
                Truthy(table_name)
                  /\ (IF sec = "Key Fields" THEN in_key_field_section
                      ELSE ~in_key_field_section /\ in_field_section)
                  => InSection(sec)']_vars
    /\ [][table_name' # table_name => Declares]_vars

\* Table A was declared and its key field section opened in a six-column
\* document; the key field status, which has no data type, was created by
\* the header row of a later three-column document.
C11_Witness ==
    /\ table_name = Str("A")
    /\ in_key_field_section
    /\ "status" \in FieldNames(metadata, "A", "Key Fields")
    /\ Field(metadata, "A", "Key Fields", "status").type = ""

\* ---------------------------------------------------------------- C12
\* The names a header row at idx can create an entry under.
NamesOfRow ==
    {Col(row, 2)} \cup
        (IF next_row = NoRow THEN {} ELSE {Col(row, 2) \o Col(next_row, 2)})

\* A data row of a field section that is no header leaves the tables, the
\* order of the names of every section and all of every entry but its
\* description, which it can only extend.
ContinuationKeepsKeys ==
    \A sec \in Sections :
        InSection(sec) /\ ~IsHeader(row) =>
            /\ DictKeys(metadata') = DictKeys(metadata)
            /\ \A t \in TableNames(metadata), s2 \in Sections :
                   /\ DictKeys(DictGet(metadata', t)[s2])
                          = DictKeys(DictGet(metadata, t)[s2])
                   /\ \A f \in FieldNames(metadata, t, s2) :
                          LET old == Field(metadata, t, s2, f)
                              new == Field(metadata', t, s2, f)
                          IN /\ new["type"] = old["type"]
                             /\ new["foreign_key"] = old["foreign_key"]
                             /\ Len(new["description"]) >= Len(old["description"])
                             /\ SubSeq(new["description"], 1, Len(old["description"]))
                                    = old["description"]

\* C12 as stated: once an entry exists in a section of the current table, a
\* later header row of that name does not create it again or reset it; and
\* continuation rows only extend descriptions, never the names.
C12_EntryCreatedOnce ==
    /\ [][\A sec \in Sections, f \in NamesOfRow :
             Creates(sec, f) /\ f \in FieldNames(metadata, table_name.s, sec) =>
                 Field(metadata', table_name.s, sec, f)
                     = Field(metadata, table_name.s, sec, f)]_vars
    /\ [][ContinuationKeepsKeys]_vars

\* No section of a record holds a name twice.
OneEntryPerName ==
    \A t \in TableNames(metadata), sec \in Sections :
        Cardinality(FieldNames(metadata, t, sec))
            = Len(DictKeys(DictGet(metadata, t)[sec]))

\* C12 amended: a section of a record holds one entry for each distinct
\* name; a header row whose name has no entry appends one, a header row
\* whose name has an entry replaces that entry in place by the row's type,
\* description and foreign key, leaving the names and their order; and
\* continuation rows only extend descriptions, never the names.
C12_OneEntryPerName ==
    /\ []OneEntryPerName
    /\ [][\A sec \in Sections, f \in NamesOfRow :
             Creates(sec, f) =>
                 LET old == DictKeys(DictGet(metadata, table_name.s)[sec])
                     new == DictKeys(DictGet(metadata', table_name.s)[sec])
                 IN /\ new = IF f \in FieldNames(metadata, table_name.s, sec)
                             THEN old ELSE Append(old, f)
                    /\ Field(metadata', table_name.s, sec, f) = ExpectedEntry(row)]_vars
    /\ [][ContinuationKeepsKeys]_vars

\* Key field status of table A has data type CHAR and a description that a
\* continuation row extended, and a header row that names status again, with
\* data type NUM, is about to be processed.
C12_Witness ==
    /\ table_name = Str("A")
    /\ Creates("Key Fields", "status")
    /\ Col(row, 3) = "NUM"
    /\ "status" \in FieldNames(metadata, "A", "Key Fields")
    /\ Field(metadata, "A", "Key Fields", "status")
           = [type |-> "CHAR", description |-> "Current more", foreign_key |-> ""]

\* ---------------------------------------------------------------- C13
\* The marker texts in the order of the claim's rules 1 to 6.
Markers ==
    <<"Table Name", "Table Synonym", "Table Comments", "Module Name",
      "Key Field Name", "Field Name">>

\* The record attribute set by rules 2 to 4.
MarkerAttribute ==
    <<"Table Name", "Table Synonym", "Table Description", "Module Name">>

\* The first rule of 1 to 6 whose marker text column 2 of r contains, 0 when
\* it contains none (rules 7 and 8: a blank row or a data row).
FirstMarker(r) ==
    LET hits == { i \in 1..Len(Markers) : Contains(Col(r, 2), Markers[i]) }
    IN IF hits = {} THEN 0 ELSE CHOOSE i \in hits : \A j \in hits : i <= j

\* C13: a row is handled by the first rule, in the order Table Name, Table
\* Synonym, Table Comments, Module Name, Key Field Name, Field Name, whose
\* marker text its column 2 contains, and by that rule only: a Key Field
\* Name row activates the key field section and never the normal one, a
\* Field Name row without "Key Field Name" activates the normal field
\* section, each clears the pending field name of its section, and no marker
\* row creates a field entry or extends a description; a row without a
\* marker changes neither the current table, the section nor the name list.
C13_FirstMarkerWins ==
    [][pc = "row" =>
         LET m == FirstMarker(row)
             col3 == Col(row, 3)
         IN /\ m = 1 =>
                   /\ table_name' = Str(col3)
                   /\ results' = Append(results, col3)
                   /\ UNCHANGED <<current_Key_Field_Fullname,
                                  current_Normal_Field_Fullname>>
                   /\ \A t \in TableNames(metadata) \ {col3} :
                          DictGet(metadata', t) = DictGet(metadata, t)
            /\ m \in 2..4 /\ table_name # None =>
                   /\ DictGet(metadata', table_name.s)[MarkerAttribute[m]] = Str(col3)
                   /\ UNCHANGED <<Context, results>>
            /\ m = 5 =>
                   /\ in_key_field_section' /\ ~in_field_section'
                   /\ current_Key_Field_Fullname' = None
                   /\ UNCHANGED current_Normal_Field_Fullname
            /\ m = 6 =>
                   /\ in_field_section' /\ ~in_key_field_section'
                   /\ current_Normal_Field_Fullname' = None
                   /\ UNCHANGED current_Key_Field_Fullname
            /\ m \in 5..6 => UNCHANGED <<table_name, metadata, results>>
            /\ m \in 2..6 =>
                   /\ DictKeys(metadata') = DictKeys(metadata)
                   /\ \A t \in TableNames(metadata), sec \in Sections :
                          DictGet(metadata', t)[sec] = DictGet(metadata, t)[sec]
            /\ m = 0 =>
                   UNCHANGED <<table_name, in_key_field_section,
                               in_field_section, results>>]_vars

\* Table A had a normal field pending when a Key Field Name row was
\* processed: the key field section is active, the normal one is not, and no
\* key field is pending.
C13_Witness ==
    /\ table_name = Str("A")
    /\ in_key_field_section
    /\ ~in_field_section
    /\ current_Key_Field_Fullname = None
    /\ Truthy(current_Normal_Field_Fullname)

\* ---------------------------------------------------------------- C14
\* Column 1 of r is the empty string or "nan", column 2 is neither.
HeaderShape(r) ==
    /\ Col(r, 1) \in {"", "nan"}
    /\ Col(r, 2) \notin {"", "nan"}

\* C14 as stated: in a field section with a current table, a data row is a
\* field header exactly when its column 1 is the empty string or "nan" and its
\* column 2 is neither.  A header whose column 2 has fewer than 19
\* characters stores the entry made of columns 3 to 5 under that name and
\* makes the name pending; a header of 19 characters or more extends no
\* description; every other data row is a continuation row: it creates no
\* entry and leaves the pending name.  Lines 294 and 338 compare column 1
\* with "nan" only: a row whose column 1 is a cell of whitespace, hence "",
\* is read by the else branch as a continuation row and stores no entry.
C14_HeaderRecognition ==
    [][\A sec \in Sections :
          InSection(sec) =>
              LET t == table_name.s
                  field == Col(row, 2)
                  old == DictKeys(DictGet(metadata, t)[sec])
                  new == DictKeys(DictGet(metadata', t)[sec])
              IN /\ HeaderShape(row) /\ Len(field) < TruncLen =>
                        /\ new = IF field \in Range(old) THEN old
                                 ELSE Append(old, field)
                        /\ Field(metadata', t, sec, field) = ExpectedEntry(row)
                        /\ Pending(sec)' = Str(field)
                 /\ HeaderShape(row) /\ Len(field) >= TruncLen =>
                        \A f \in Range(old) \ NamesOfRow :
                            Field(metadata', t, sec, f) = Field(metadata, t, sec, f)
                 /\ ~HeaderShape(row) =>
                        /\ new = old
                        /\ Pending(sec)' = Pending(sec)
                        /\ \A f \in Range(old) :
                               /\ Field(metadata', t, sec, f)["type"]
                                      = Field(metadata, t, sec, f)["type"]
                               /\ Field(metadata', t, sec, f)["foreign_key"]
                                      = Field(metadata, t, sec, f)["foreign_key"]]_vars

\* ---------------------------------------------------------------- C15
\* The row at idx is a header of section sec of 19 characters or more whose
\* lookahead fails: no row follows it in the document, or column 1 or
\* column 2 of the row that follows is empty or "nan".
LookaheadFails(sec) ==
    /\ InSection(sec)
    /\ HeaderShape(row)
    /\ Len(Col(row, 2)) >= TruncLen
    /\ \/ next_row = NoRow
       \/ Col(next_row, 1) \in {"", "nan"}
       \/ Col(next_row, 2) \in {"", "nan"}

\* C15 as stated: a header of 19 characters or more whose lookahead fails
\* creates no entry, neither under the truncated name nor under any other:
\* the names of both field maps of every record, and the mapping as a whole,
\* are as before the row.  Lines 305 and 349 compare the next row's columns
\* with "nan" only: when one of them is a cell of whitespace, hence "", the
\* entry is stored under the concatenation, which is the truncated name
\* itself when the empty column is column 2.
C15_FailedLookaheadCreatesNothing ==
    [][\A sec \in Sections :
          LookaheadFails(sec) =>
              /\ \A t \in TableNames(metadata), s2 \in Sections :
                     DictKeys(DictGet(metadata', t)[s2])
                         = DictKeys(DictGet(metadata, t)[s2])
              /\ metadata' = metadata]_vars

\* ---------------------------------------------------------------- C16
\* The rows that can start the next document and continue a truncated name:
\* data rows whose column 1 and column 2 are neither empty nor "nan".
ContinuationPieces ==
    { r \in UNION { Rows(n) : n \in Widths } :
        /\ Kind(r) = "Data"
        /\ Col(r, 1) \notin {"", "nan"}
        /\ Col(r, 2) \notin {"", "nan"} }

\* C16 as stated: after a header of 19 characters or more was processed as
\* the last row of its document, processing a first row of the next document
\* whose columns 1 and 2 are neither empty nor "nan" (it reaches the field
\* code of the same table and section, the state being kept between
\* documents) leaves the section with an entry under the concatenated name,
\* made of the header's columns 3 to 5, as within one document.
C16_ReassemblyAcrossDocuments ==
    [][\A sec \in Sections :
          /\ InSection(sec)
          /\ HeaderShape(row)
          /\ Len(Col(row, 2)) >= TruncLen
          /\ next_row = NoRow
          => \A first \in ContinuationPieces :
                 LET t == table_name.s
                     name == Col(row, 2) \o Col(first, 2)
                     after == FieldRow(metadata', t, sec, Pending(sec)',
                                       first, NoRow).md
                 IN /\ name \in FieldNames(after, t, sec)
                    /\ Field(after, t, sec, name) = ExpectedEntry(row)]_vars

\* ---------------------------------------------------------------- C17
\* Columns 2, 3 and 4 of r are empty ("nan"), or absent or blank ("").
Blank(r) == \A k \in 2..4 : Col(r, k) \in {"", "nan"}

\* C17: a row whose columns 2, 3 and 4 are all empty or absent, whatever its
\* columns 1 and 5 and whichever section is active, raises nothing and
\* leaves the mapping, the name list, the current table, the section flags
\* and the pending field names as they are.
C17_BlankRowChangesNothing ==
    [][pc = "row" /\ Blank(row) => UNCHANGED <<parse, errors>>]_vars

\* A key field of table A is pending and the row at idx has text in columns
\* 1 and 5 only.
C17_Witness ==
    /\ table_name = Str("A")
    /\ in_key_field_section
    /\ Truthy(current_Key_Field_Fullname)
    /\ pc = "row"
    /\ Blank(row)
    /\ Col(row, 1) = "x"
    /\ Col(row, 5) = "REF"

\* ---------------------------------------------------------------- C18
\* C18: a Table Name row leaves its record with the synonym, the description
\* and the module null; a Table Synonym, Table Comments or Module Name row
\* processed while a table is current sets the matching attribute of that
\* table's record to its column 3, whatever it held, and leaves the other
\* two attributes, both field maps, every other record, the section flags,
\* the pending field names and the name list; and no other step changes an
\* attribute of any record.
C18_AttributeRows ==
    /\ [][Declares =>
            \A a \in Attributes : DictGet(metadata', Col(row, 3))[a] = None]_vars
    /\ [][pc = "row" /\ FirstMarker(row) \in 2..4 /\ table_name # None =>
            LET t == table_name.s
                a == MarkerAttribute[FirstMarker(row)]
            IN /\ DictGet(metadata', t)[a] = Str(Col(row, 3))
               /\ \A b \in (Attributes \ {a}) \cup Sections \cup {"Table Name"} :
                      DictGet(metadata', t)[b] = DictGet(metadata, t)[b]
               /\ DictKeys(metadata') = DictKeys(metadata)
               /\ \A u \in TableNames(metadata) \ {t} :
                      DictGet(metadata', u) = DictGet(metadata, u)
               /\ UNCHANGED <<Context, results>>]_vars
    /\ [][\A t \in TableNames(metadata), a \in Attributes :
            DictGet(metadata', t)[a] # DictGet(metadata, t)[a] =>
                /\ pc = "row"
                /\ \/ FirstMarker(row) = 1 /\ t = Col(row, 3)
                   \/ /\ FirstMarker(row) \in 2..4
                      /\ table_name = Str(t)
                      /\ a = MarkerAttribute[FirstMarker(row)]]_vars

\* Table A got a key field, then its synonym and its module from two
\* attribute rows; its description is still null.
C18_Witness ==
    /\ table_name = Str("A")
    /\ in_key_field_section
    /\ current_Key_Field_Fullname = Str("status")
    /\ "status" \in FieldNames(metadata, "A", "Key Fields")
    /\ DictGet(metadata, "A")["Table Synonym"] = Str("SYN")
    /\ DictGet(metadata, "A")["Table Description"] = None
    /\ DictGet(metadata, "A")["Module Name"] = Str("MOD")

\* ---------------------------------------------------------------- C19
\* C19: the two section flags are never both set; a Table Name row clears
\* both; and a row without a marker that is processed while neither is set
\* raises nothing and leaves the mapping as it is: no entry is added, no
\* description changes.
C19_SectionFlagsExclusive ==
    /\ [](~(in_key_field_section /\ in_field_section))
    /\ [][Declares => ~in_key_field_section' /\ ~in_field_section']_vars
    /\ [][/\ pc = "row"
          /\ FirstMarker(row) = 0
          /\ ~in_key_field_section
          /\ ~in_field_section
          => metadata' = metadata /\ errors' = errors]_vars

\* Table A had a key field pending when table B was declared: no section is
\* active and the row at idx is a field header.
C19_Witness ==
    /\ results = <<"A", "B">>
    /\ table_name = Str("B")
    /\ Truthy(current_Key_Field_Fullname)
    /\ ~in_key_field_section
    /\ ~in_field_section
    /\ pc = "row"
    /\ FirstMarker(row) = 0
    /\ HeaderShape(row)

\* ---------------------------------------------------------------- C20
\* A data row would reach the field code of section sec.
SectionReady(sec) ==
    /\ Truthy(table_name)
    /\ IF sec = "Key Fields" THEN in_key_field_section
       ELSE ~in_key_field_section /\ in_field_section

\* The pending name of section sec has been assigned, and when it is not
\* None it names an entry of that section of the current table.
PendingIsEntry(sec) ==
    /\ Pending(sec) # Unbound
    /\ Pending(sec) # None =>
           /\ Pending(sec).t = "str"
           /\ Pending(sec).s \in FieldNames(metadata, table_name.s, sec)

\* C20: whenever a data row can reach the field code of a section, the
\* pending name of that section is assigned and, unless None, names an entry
\* of that section of the current table; so a data row of a section never
\* raises, changes no record but the current table's and no section but its
\* own, and a continuation row that changes the mapping changes the
\* description of the pending field only.
C20_PendingNamesAnEntry ==
    /\ [](\A sec \in Sections : SectionReady(sec) => PendingIsEntry(sec))
    /\ [][\A sec \in Sections :
            InSection(sec) =>
                LET t == table_name.s
                IN /\ errors' = errors
                   /\ DictKeys(metadata') = DictKeys(metadata)
                   /\ \A u \in TableNames(metadata) \ {t} :
                          DictGet(metadata', u) = DictGet(metadata, u)
                   /\ \A s2 \in Sections \ {sec} :
                          DictGet(metadata', t)[s2] = DictGet(metadata, t)[s2]
                   /\ ~IsHeader(row) /\ metadata' # metadata =>
                          SameButDescription(metadata, metadata', t, sec,
                                             Pending(sec).s)]_vars

\* Table A had the key field status pending when table B was declared; the
\* normal field section of B was opened since: the pending key field name is
\* still status, no normal field is pending.
C20_Witness ==
    /\ results = <<"A", "B">>
    /\ table_name = Str("B")
    /\ in_field_section
    /\ ~in_key_field_section
    /\ current_Key_Field_Fullname = Str("status")
    /\ current_Normal_Field_Fullname = None
    /\ "status" \notin FieldNames(metadata, "B", "Key Fields")

\* ---------------------------------------------------------------- C21
\* The row at idx is a header of section sec (test of lines 294, 338) of 19
\* characters or more, and the lookahead of lines 298-305 (342-349) fails:
\* no row follows it in the document, or column 1 or column 2 of the row
\* that follows is "nan".
DroppedHeader(sec) ==
    /\ InSection(sec)
    /\ IsHeader(row)
    /\ Len(Col(row, 2)) >= TruncLen
    /\ ~HasContinuation(next_row)

\* r is a continuation row with a text to append: no marker, not a field
\* header by the test of lines 294 and 338, and a column 4 that is neither
\* empty, "nan" nor "Unnamed: 3".
ContinuationText(r) ==
    /\ r # NoRow
    /\ FirstMarker(r) = 0
    /\ ~IsHeader(r)
    /\ Col(r, 4) \notin {"", "nan", "Unnamed: 3"}

\* C21: a header of 19 characters or more whose lookahead fails, both as the
\* code decides them, leaves both pending field names as they are; and when
\* a field was pending and the row that follows the header in the document
\* is a continuation row with a text, processing that row in the state the
\* header left appends " " and its column 4 to the description of the field
\* that was pending before the header, and keeps that field pending.
C21_DroppedHeaderKeepsPending ==
    [][\A sec \in Sections :
          DroppedHeader(sec) =>
              /\ UNCHANGED <<current_Key_Field_Fullname,
                             current_Normal_Field_Fullname>>
              /\ Truthy(Pending(sec)) /\ ContinuationText(next_row) =>
                     LET t == table_name.s
                         f == Pending(sec).s
                         res == FieldRow(metadata', t, sec, Pending(sec)',
                                         row', next_row')
                     IN /\ row' = next_row
                        /\ InSection(sec)'
                        /\ res.cur = Str(f)
                        /\ Field(res.md, t, sec, f)["description"]
                               = Field(metadata, t, sec, f)["description"]
                                     \o " " \o Col(next_row, 4)]_vars

\* Key field status of table A is pending; the row at idx is the header
\* ACCOUNT_OPEN_DATE_T and the row after it, whose column 1 is NaN, carries
\* the continuation text "more".
C21_Witness ==
    /\ table_name = Str("A")
    /\ current_Key_Field_Fullname = Str("status")
    /\ DroppedHeader("Key Fields")
    /\ ContinuationText(next_row)
    /\ Col(next_row, 4) = "more"

\* ---------------------------------------------------------------- C22
\* C22: no step removes a record from the mapping or changes the order of
\* its names; a step that changes the record of a table is the processing
\* of a row, and that table is the one declared by the row when it is a
\* Table Name row and the current table otherwise; so the record of a table
\* that is not current after a step (its attributes, its field names and
\* their order, every type, description and foreign key) is as before.
C22_OtherRecordsFrozen ==
    [][/\ \A i \in 1..Len(metadata) :
              i <= Len(metadata') /\ metadata'[i].key = metadata[i].key
       /\ \A t \in TableNames(metadata) :
              DictGet(metadata', t) # DictGet(metadata, t) =>
                  /\ pc = "row"
                  /\ IF Declares THEN t = Col(row, 3) ELSE table_name = Str(t)
                  /\ table_name' = Str(t)]_vars

\* Table A got the key field status, then table B was declared and got its
\* synonym: the record of A still holds the field and has no synonym.
C22_Witness ==
    /\ results = <<"A", "B">>
    /\ table_name = Str("B")
    /\ DictGet(metadata, "B")["Table Synonym"] = Str("SYN")
    /\ DictGet(metadata, "A")["Table Synonym"] = None
    /\ "status" \in FieldNames(metadata, "A", "Key Fields")

====
